---- MODULE Spec2Model ----
(***************************************************************************)
(* A model of app/cache.py: SimpleCache, the in-memory cache with TTL and  *)
(* LRU eviction that LLMHandler consults before calling the language       *)
(* model.  The store is the insertion-ordered dict _cache; callers are     *)
(* threads that derive the key (and, for set and cleanup_expired, read the *)
(* clock) before they take the lock, run the body of the operation under   *)
(* the lock, and release it on return.  LLMHandler.generate_sql and        *)
(* generate_response of app/llm_handler.py, which derive their cache keys  *)
(* from the query, the schema and the data, are modelled on top of it.     *)
(***************************************************************************)
EXTENDS Integers, Sequences, FiniteSets, TLC

(***************************************************************************)
(* Bounds of the model.                                                    *)
(***************************************************************************)
MaxTime == 2       \* the clock reads 1..MaxTime
MaxAccess == 1     \* hits are explored while access_count < MaxAccess

(***************************************************************************)
(* The callers, and the arguments they and the constructor are given.      *)
(***************************************************************************)
Threads == {"t1", "t2"}
Data == {"v1", "v2"}
Sizes == {1, 2}    \* max_size of a cache of positive capacity
Ttls == {0, 1}     \* default_ttl, and the ttl argument of set

None == <<>>
Some(x) == <<x>>

(***************************************************************************)
(* Strings are sequences of character codes.                               *)
(***************************************************************************)
IsSpace(ch) == ch \in {9, 10, 11, 12, 13, 28, 29, 30, 31, 32}

LowerCh(ch) == IF ch >= 65 /\ ch <= 90 THEN ch + 32 ELSE ch

\* str.lower()
Lower(s) == [i \in 1..Len(s) |-> LowerCh(s[i])]

RECURSIVE LStrip(_)
LStrip(s) == IF s # <<>> /\ IsSpace(Head(s)) THEN LStrip(Tail(s)) ELSE s

RECURSIVE RStrip(_)
RStrip(s) ==
    IF s # <<>> /\ IsSpace(s[Len(s)]) THEN RStrip(SubSeq(s, 1, Len(s) - 1)) ELSE s

\* str.strip()
Strip(s) == RStrip(LStrip(s))

\* lexicographic order on strings, the order json.dumps(sort_keys=True) uses
RECURSIVE StrLess(_, _)
StrLess(a, b) ==
    IF b = <<>> THEN FALSE
    ELSE IF a = <<>> THEN TRUE
    ELSE IF Head(a) # Head(b) THEN Head(a) < Head(b)
    ELSE StrLess(Tail(a), Tail(b))

\* A JSON value carries its type: a string, an integer, a dict (a sequence of
\* <<key, value>> items in insertion order, the keys strings and distinct) or
\* a list.  A context is the items of a dict.
JStr(s) == <<"str", s>>
JInt(n) == <<"int", n>>
JDict(items) == <<"dict", items>>
JList(elems) == <<"list", elems>>
JBool(b) == <<"bool", b>>

RECURSIVE InsertItem(_, _)
InsertItem(item, sorted) ==
    IF sorted = <<>> THEN <<item>>
    ELSE IF StrLess(item[1], Head(sorted)[1]) THEN <<item>> \o sorted
    ELSE <<Head(sorted)>> \o InsertItem(item, Tail(sorted))

\* mutant: the items are serialized in insertion order
SortKeys_AsInserted(ctx) == ctx

RECURSIVE SortKeys(_)
SortKeys(ctx) ==
    IF ctx = <<>> THEN <<>> ELSE InsertItem(Head(ctx), SortKeys(Tail(ctx)))

\* context or {}: the argument is None or Some(dict); None and the empty dict
\* are both falsy
ContextOrEmpty(context) == IF context = None THEN <<>> ELSE context[1]

\* str(n) for n >= 0
RECURSIVE Digits(_)
Digits(n) == IF n < 10 THEN <<48 + n>> ELSE Digits(n \div 10) \o <<48 + (n % 10)>>

\* mutant: quotes and backslashes are written as they are
Escape_Raw(s) == s

\* the JSON string literal of s: quotes around it, a backslash before each
\* quote and backslash in it
RECURSIVE Escape(_)
Escape(s) ==
    IF s = <<>> THEN <<>>
    ELSE IF Len(s) = 1 THEN (IF s[1] \in {34, 92} THEN <<92, s[1]>> ELSE s)
    ELSE LET half == Len(s) \div 2
         IN  Escape(SubSeq(s, 1, half)) \o Escape(SubSeq(s, half + 1, Len(s)))

Quote(s) == <<34>> \o Escape(s) \o <<34>>

\* ", ".join(parts)
RECURSIVE JoinComma(_)
JoinComma(parts) ==
    IF parts = <<>> THEN <<>>
    ELSE IF Len(parts) = 1 THEN parts[1]
    ELSE parts[1] \o <<44, 32>> \o JoinComma(Tail(parts))

\* json.dumps(v, sort_keys=True), with the default separators ", " and ": "
RECURSIVE Dumps(_)
Dumps(v) ==
    IF v[1] = "str" THEN Quote(v[2])
    ELSE IF v[1] = "int" THEN Digits(v[2])
    ELSE IF v[1] = "bool"
    THEN (IF v[2] THEN <<116, 114, 117, 101>> ELSE <<102, 97, 108, 115, 101>>)
    ELSE IF v[1] = "list"
    THEN <<91>> \o JoinComma([i \in 1..Len(v[2]) |-> Dumps(v[2][i])]) \o <<93>>
    ELSE LET items == SortKeys(v[2])
         IN  <<123>>
             \o JoinComma([i \in 1..Len(items) |->
                    Quote(items[i][1]) \o <<58, 32>> \o Dumps(items[i][2])])
             \o <<125>>

\* json.dumps(cache_data, sort_keys=True) of
\* cache_data = {"query": normalized_query, "context": context or {}}
JsonDumps(normalized_query, ctx) ==
    Dumps(JDict(<< << <<113, 117, 101, 114, 121>>, JStr(normalized_query) >>,
                   << <<99, 111, 110, 116, 101, 120, 116>>, JDict(ctx) >> >>))

\* the digest of bytes[lo..hi]: each byte weighted by its position, the sum
\* kept to 24 bits
RECURSIVE Mix(_, _, _)
Mix(bytes, lo, hi) ==
    IF lo > hi THEN 0
    ELSE IF lo = hi
    THEN (bytes[lo] * (((lo * 7919 + 104729) * (lo + 31)) % 65521)) % 16777216
    ELSE LET mid == (lo + hi) \div 2
         IN  (Mix(bytes, lo, mid) + Mix(bytes, mid + 1, hi)) % 16777216

\* the digit of 0..15 in lower-case hexadecimal
HexDigit(d) == IF d < 10 THEN 48 + d ELSE 87 + d

\* .hexdigest() of a digest of 24 bits: six hexadecimal digits
HexDigest(digest) ==
    [i \in 1..6 |-> HexDigit((digest \div (16 ^ (6 - i))) % 16)]

\* hashlib.md5(cache_str.encode()).hexdigest(): a digest of fixed width of
\* the bytes of the text (one byte for each character, the texts being
\* ASCII), in hexadecimal; the digest here has 24 bits where MD5 has 128
Md5(cache_str) ==
    HexDigest((Mix(cache_str, 1, Len(cache_str)) + Len(cache_str) * 40503) % 16777216)

GenerateKey(query, context) ==
    Md5(JsonDumps(Strip(Lower(query)), ContextOrEmpty(context)))

(***************************************************************************)
(* The requests callers present, (query, context):                         *)
(*   ("a", None), ("A ", {}), ("b", None), ("a", {"s": 1})                 *)
(***************************************************************************)
Requests ==
    { << <<97>>, None >>,
      << <<65, 32>>, Some(<<>>) >>,
      << <<98>>, None >>,
      << <<97>>, Some(<< <<<<115>>, JInt(1)>> >>) >> }

(***************************************************************************)
(* The forms of a request that the derivation of the key is examined on:   *)
(* the queries "a", " A" and "b", each with no context and with each of    *)
(* the contexts                                                            *)
(*   {}   {"s": 1}   {"s": 2}   {"s": "1"}                                 *)
(*   {"s": 1, "t": 2}   {"t": 2, "s": 1}                                   *)
(*   {"n": {"s": 1, "t": 2}}   {"n": {"t": 2, "s": 1}}                     *)
(*   {"s": "x", "t": "y"}   {"s": "x\", \"t\": \"y"}                       *)
(***************************************************************************)
FormQueries == { <<97>>, <<32, 65>>, <<98>> }

FormContexts ==
    { None,
      Some(<<>>),
      Some(<< <<<<115>>, JInt(1)>> >>),
      Some(<< <<<<115>>, JInt(2)>> >>),
      Some(<< <<<<115>>, JStr(<<49>>)>> >>),
      Some(<< <<<<115>>, JInt(1)>>, <<<<116>>, JInt(2)>> >>),
      Some(<< <<<<116>>, JInt(2)>>, <<<<115>>, JInt(1)>> >>),
      Some(<< <<<<110>>, JDict(<< <<<<115>>, JInt(1)>>, <<<<116>>, JInt(2)>> >>)>> >>),
      Some(<< <<<<110>>, JDict(<< <<<<116>>, JInt(2)>>, <<<<115>>, JInt(1)>> >>)>> >>),
      Some(<< <<<<115>>, JStr(<<120>>)>>, <<<<116>>, JStr(<<121>>)>> >>),
      Some(<< <<<<115>>, JStr(<<120, 34, 44, 32, 34, 116, 34, 58, 32, 34, 121>>)>> >>) }

KeyForms == FormQueries \X FormContexts

\* the key _generate_key derives for each request
KeyOf == [r \in Requests |-> GenerateKey(r[1], r[2])]

\* and for each of the forms
FormKeyOf == [r \in KeyForms |-> GenerateKey(r[1], r[2])]

\* self._generate_key(query, context) for the request r = (query, context)
DerivedKey(r) == IF r \in Requests THEN KeyOf[r] ELSE FormKeyOf[r]

KeySet == {KeyOf[r] : r \in Requests}
NoKey == <<>>
NoThread == "none"

(***************************************************************************)
(* The store: _cache, a dict in insertion order, as a sequence of entries  *)
(* each carrying its key.                                                  *)
(***************************************************************************)
CacheEntry(key, data, timestamp, access_count, last_accessed) ==
    [key |-> key, data |-> data, timestamp |-> timestamp,
     access_count |-> access_count, last_accessed |-> last_accessed]

\* key in self._cache
Has(c, key) == \E i \in 1..Len(c) : c[i].key = key

IndexOf(c, key) == CHOOSE i \in 1..Len(c) : c[i].key = key

\* self._cache[key]
Lookup(c, key) == c[IndexOf(c, key)]

\* del self._cache[key]
DelKey(c, key) == SelectSeq(c, LAMBDA e : e.key # key)

\* self._cache[key] = entry: a present key keeps its place in the dict
StoreEntry(c, entry) ==
    IF Has(c, entry.key) THEN [c EXCEPT ![IndexOf(c, entry.key)] = entry]
    ELSE Append(c, entry)

KeysOf(c) == {c[i].key : i \in 1..Len(c)}

EntriesOf(c) == {c[i] : i \in 1..Len(c)}

\* entry.last_accessed or entry.timestamp
LruRank(e) == IF e.last_accessed = 0 THEN e.timestamp ELSE e.last_accessed

\* mutant: the victim is the oldest insertion, whatever its last_accessed
LruIndex_First(c) == 1

\* min(self._cache.keys(), key=...): the first minimal key in dict order
LruIndex(c) ==
    CHOOSE i \in 1..Len(c) :
        /\ \A j \in 1..Len(c) : LruRank(c[i]) <= LruRank(c[j])
        /\ \A j \in 1..(i - 1) : LruRank(c[j]) > LruRank(c[i])

EvictLru(c) == IF c = <<>> THEN c ELSE DelKey(c, c[LruIndex(c)].key)

\* mutant: an entry exactly ttl old is already expired
IsExpired_AtTtl(entry, current_time, ttl) == current_time - entry.timestamp >= ttl

\* mutant: a ttl of 0 is taken for "no expiry"
IsExpired_ZeroNever(entry, current_time, ttl) ==
    ttl # 0 /\ current_time - entry.timestamp > ttl

\* current_time - entry.timestamp > self.default_ttl
IsExpired(entry, current_time, ttl) == current_time - entry.timestamp > ttl

\* mutant: an expired entry is reported as a miss but left in the store
GetStore_KeepsExpired(c, key, current_time, ttl) ==
    IF ~Has(c, key) THEN c
    ELSE IF current_time - Lookup(c, key).timestamp > ttl THEN c
    ELSE [c EXCEPT ![IndexOf(c, key)] =
              [@ EXCEPT !.access_count = @ + 1, !.last_accessed = current_time]]

\* mutant: a miss makes room for the entry its caller is about to set
GetStore_MissEvicts(c, key, current_time, ttl) ==
    IF ~Has(c, key) THEN EvictLru(c)
    ELSE IF current_time - Lookup(c, key).timestamp > ttl THEN DelKey(c, key)
    ELSE [c EXCEPT ![IndexOf(c, key)] =
              [@ EXCEPT !.access_count = @ + 1, !.last_accessed = current_time]]

\* mutant: a hit also renews the entry's timestamp
GetStore_Refreshes(c, key, current_time, ttl) ==
    IF ~Has(c, key) THEN c
    ELSE IF current_time - Lookup(c, key).timestamp > ttl THEN DelKey(c, key)
    ELSE [c EXCEPT ![IndexOf(c, key)] =
              [@ EXCEPT !.access_count = @ + 1, !.last_accessed = current_time,
                        !.timestamp = current_time]]

\* get, lines 79-98: the store it leaves
GetStore(c, key, current_time, ttl) ==
    IF ~Has(c, key) THEN c
    ELSE IF IsExpired(Lookup(c, key), current_time, ttl) THEN DelKey(c, key)
    ELSE [c EXCEPT ![IndexOf(c, key)] =
              [@ EXCEPT !.access_count = @ + 1, !.last_accessed = current_time]]

\* mutant: an expired entry is removed, and its payload returned one last time
GetResult_ServesExpired(c, key, current_time, ttl) ==
    IF ~Has(c, key) THEN None ELSE Some(Lookup(c, key).data)

\* get, lines 79-98: the value it returns
GetResult(c, key, current_time, ttl) ==
    IF ~Has(c, key) THEN None
    ELSE IF IsExpired(Lookup(c, key), current_time, ttl) THEN None
    ELSE Some(Lookup(c, key).data)

\* mutant: eviction starts one entry too late
SetStore_OffByOne(c, key, data, ttl, current_time, size) ==
    LET c1 == IF Len(c) > size THEN EvictLru(c) ELSE c
    IN  StoreEntry(c1, CacheEntry(key, data, current_time, 0, current_time))

\* mutant: an overwrite updates the payload and keeps the access statistics
SetStore_KeepsCount(c, key, data, ttl, current_time, size) ==
    LET c1 == IF Len(c) >= size THEN EvictLru(c) ELSE c
    IN  IF Has(c1, key)
        THEN [c1 EXCEPT ![IndexOf(c1, key)] =
                 [@ EXCEPT !.data = data, !.timestamp = current_time]]
        ELSE StoreEntry(c1, CacheEntry(key, data, current_time, 0, current_time))

\* mutant: eviction starts one entry too early
SetStore_EvictsEarly(c, key, data, ttl, current_time, size) ==
    LET c1 == IF Len(c) + 1 >= size THEN EvictLru(c) ELSE c
    IN  StoreEntry(c1, CacheEntry(key, data, current_time, 0, current_time))

\* mutant: a key that is stored keeps the entry it has
SetStore_KeepsFirst(c, key, data, ttl, current_time, size) ==
    IF Has(c, key) THEN c
    ELSE LET c1 == IF Len(c) >= size THEN EvictLru(c) ELSE c
         IN  StoreEntry(c1, CacheEntry(key, data, current_time, 0, current_time))

\* set, lines 113-123: the ttl argument is accepted and never read
SetStore(c, key, data, ttl, current_time, size) ==
    LET c1 == IF Len(c) >= size THEN EvictLru(c) ELSE c
    IN  StoreEntry(c1, CacheEntry(key, data, current_time, 0, current_time))

\* mutant: clear spares the entries that have been hit
ClearStore_KeepsHit(c) == SelectSeq(c, LAMBDA e : e.access_count > 0)

\* clear
ClearStore(c) == <<>>

RECURSIVE SumAccess(_)
SumAccess(c) == IF c = <<>> THEN 0 ELSE Head(c).access_count + SumAccess(Tail(c))

Timestamps(c) == {c[i].timestamp : i \in 1..Len(c)}
MinOf(S) == CHOOSE x \in S : \A y \in S : x <= y
MaxOf(S) == CHOOSE x \in S : \A y \in S : x >= y

\* mutant: hit_rate is taken over the capacity, not over the entries stored
StatsOf_PerCapacity(c, size) ==
    [size |-> Len(c),
     max_size |-> size,
     total_accesses |-> SumAccess(c),
     hit_rate |-> IF SumAccess(c) = 0 THEN <<0, 1>> ELSE <<SumAccess(c), size>>,
     oldest_entry |-> IF c = <<>> THEN None ELSE Some(MinOf(Timestamps(c))),
     newest_entry |-> IF c = <<>> THEN None ELSE Some(MaxOf(Timestamps(c)))]

\* stats; hit_rate is the quotient <<numerator, denominator>>, 0.0 is <<0, 1>>
StatsOf(c, size) ==
    [size |-> Len(c),
     max_size |-> size,
     total_accesses |-> SumAccess(c),
     hit_rate |-> IF SumAccess(c) = 0 THEN <<0, 1>> ELSE <<SumAccess(c), Len(c)>>,
     oldest_entry |-> IF c = <<>> THEN None ELSE Some(MinOf(Timestamps(c))),
     newest_entry |-> IF c = <<>> THEN None ELSE Some(MaxOf(Timestamps(c)))]

\* cleanup_expired: expired_keys
ExpiredKeys(c, current_time, ttl) ==
    SelectSeq([i \in 1..Len(c) |-> c[i]], LAMBDA e : IsExpired(e, current_time, ttl))

\* mutant: the expired entries are counted and left in the store
CleanupStore_KeepsAll(c, current_time, ttl) == c

\* cleanup_expired: the store it leaves
CleanupStore(c, current_time, ttl) ==
    SelectSeq(c, LAMBDA e : ~IsExpired(e, current_time, ttl))

(***************************************************************************)
(* app/llm_handler.py: LLMHandler.generate_sql and generate_response, the  *)
(* callers of the module's cache query_cache.  A call is two steps: the    *)
(* lookup in the cache, and on a miss the call of the language model with  *)
(* what follows it.  The language model answers any of a few texts or      *)
(* raises.                                                                 *)
(***************************************************************************)
\* s.startswith(p)
StartsWith(s, p) == Len(s) >= Len(p) /\ SubSeq(s, 1, Len(p)) = p

\* s.replace(old, new, 1)
RECURSIVE ReplaceFirst(_, _, _)
ReplaceFirst(s, old_text, new_text) ==
    IF Len(s) < Len(old_text) THEN s
    ELSE IF StartsWith(s, old_text)
    THEN new_text \o SubSeq(s, Len(old_text) + 1, Len(s))
    ELSE <<Head(s)>> \o ReplaceFirst(Tail(s), old_text, new_text)

\* s.replace(old, new)
RECURSIVE Replace(_, _, _)
Replace(s, old_text, new_text) ==
    IF Len(s) < Len(old_text) THEN s
    ELSE IF StartsWith(s, old_text)
    THEN new_text \o Replace(SubSeq(s, Len(old_text) + 1, Len(s)), old_text, new_text)
    ELSE <<Head(s)>> \o Replace(Tail(s), old_text, new_text)

\* s.strip('`')
RECURSIVE StripTicks(_)
StripTicks(s) ==
    IF s # <<>> /\ Head(s) = 96 THEN StripTicks(Tail(s))
    ELSE IF s # <<>> /\ s[Len(s)] = 96 THEN StripTicks(SubSeq(s, 1, Len(s) - 1))
    ELSE s

\* lines 177-182: the text of the answer without surrounding space and
\* without the marks of a code block
CleanSql(text) ==
    LET sql_query == Strip(text)
    IN  IF StartsWith(sql_query, <<96, 96, 96>>)                      \* '```'
        THEN Strip(Strip(ReplaceFirst(StripTicks(sql_query),
                                      <<115, 113, 108>>, <<>>)))      \* 'sql'
        ELSE Strip(sql_query)

\* mutant: any answer is taken for a SELECT statement
SqlAccepted_Any(sql_query) == TRUE

\* line 184: sql_query.lower().startswith('select')
SqlAccepted(sql_query) ==
    StartsWith(Lower(sql_query), <<115, 101, 108, 101, 99, 116>>)

\* _get_latest_date: MAX(date) of the sales table, here "2025-06-01"
LatestDate == <<50, 48, 50, 53, 45, 48, 54, 45, 48, 49>>

\* re.finditer(pattern2, sql_query): the texts matching date('now'), in any
\* case of letters, from left to right
RECURSIVE RelativeDates(_)
RelativeDates(s) ==
    IF Len(s) < 11 THEN <<>>
    ELSE IF Lower(SubSeq(s, 1, 11))
            = <<100, 97, 116, 101, 40, 39, 110, 111, 119, 39, 41>>    \* date('now')
    THEN <<SubSeq(s, 1, 11)>> \o RelativeDates(SubSeq(s, 12, Len(s)))
    ELSE RelativeDates(Tail(s))

\* lines 126-127: each collected text is replaced wherever it occurs
RECURSIVE ApplyReplacements(_, _, _)
ApplyReplacements(s, olds, new_text) ==
    IF olds = <<>> THEN s
    ELSE ApplyReplacements(Replace(s, Head(olds), new_text), Tail(olds), new_text)

\* _replace_relative_dates, on SQL that has no date('now', '-N days'), which
\* patterns 1 and 3 are about: pattern 2 turns date('now') into
\* DATE('<latest date>')
ReplaceRelativeDates(sql_query) ==
    ApplyReplacements(sql_query, RelativeDates(sql_query),
                      <<68, 65, 84, 69, 40, 39>> \o LatestDate \o <<39, 41>>)
                      \* DATE('...')

\* get_schema(): the table sales with one column of the given name,
\*   {"sales": [{"name": column, "type": "TEXT", "not_null": False,
\*               "primary_key": False}]}
SchemaOf(column) ==
    JDict(<< <<
        <<115, 97, 108, 101, 115>>,
        JList(<< JDict(<<
            << <<110, 97, 109, 101>>, JStr(column) >>,
            << <<116, 121, 112, 101>>, JStr(<<84, 69, 88, 84>>) >>,
            << <<110, 111, 116, 95, 110, 117, 108, 108>>, JBool(FALSE) >>,
            << <<112, 114, 105, 109, 97, 114, 121, 95, 107, 101, 121>>,
               JBool(FALSE) >> >>) >>) >> >>)

\* the states of the database: the column is named "date", or renamed to "day"
Databases == {"date", "day"}

\* db_handler.get_schema() in each state of the database
GetSchema ==
    [db \in Databases |->
        IF db = "date" THEN SchemaOf(<<100, 97, 116, 101>>)
        ELSE SchemaOf(<<100, 97, 121>>)]

\* mutant: the context does not carry the fingerprint of the schema
SqlContext_NoHash(s) ==
    << << <<116, 121, 112, 101>>,
          JStr(<<115, 113, 108, 95, 103, 101, 110, 101, 114, 97, 116, 105, 111, 110>>) >> >>

\* lines 141-143: {"schema_hash": md5(json.dumps(schema, sort_keys=True)),
\* "type": "sql_generation"}
SqlContext(s) ==
    << << <<115, 99, 104, 101, 109, 97, 95, 104, 97, 115, 104>>,
          JStr(Md5(Dumps(s))) >>,
       << <<116, 121, 112, 101>>,
          JStr(<<115, 113, 108, 95, 103, 101, 110, 101, 114, 97, 116, 105, 111, 110>>) >> >>

\* line 206: {"type": "response_generation"}
ResponseContext ==
    << << <<116, 121, 112, 101>>,
          JStr(<<114, 101, 115, 112, 111, 110, 115, 101, 95,
                 103, 101, 110, 101, 114, 97, 116, 105, 111, 110>>) >> >>

\* repr of a list, given the repr of each of its elements
ReprList(rs) == <<91>> \o JoinComma(rs) \o <<93>>

\* _summarize_data(data); data is the list of the reprs of its records
\*   "No data available"
\*   "Found N records. All records: [...]"
\*   "Found N records. Sample records: [...]... (and M more)"
SummarizeData(data) ==
    IF data = <<>>
    THEN <<78, 111, 32, 100, 97, 116, 97, 32, 97, 118, 97, 105, 108, 97, 98, 108, 101>>
    ELSE <<70, 111, 117, 110, 100, 32>>
         \o Digits(Len(data))
         \o <<32, 114, 101, 99, 111, 114, 100, 115, 46, 32>>
         \o (IF Len(data) <= 5
             THEN <<65, 108, 108, 32, 114, 101, 99, 111, 114, 100, 115, 58, 32>>
                  \o ReprList(data)
             ELSE <<83, 97, 109, 112, 108, 101, 32,
                    114, 101, 99, 111, 114, 100, 115, 58, 32>>
                  \o ReprList(SubSeq(data, 1, 3))
                  \o <<46, 46, 46, 32, 40, 97, 110, 100, 32>>
                  \o Digits(Len(data) - 3)
                  \o <<32, 109, 111, 114, 101, 41>>)

\* line 205: f"{original_query}|{sql_query}|{data_summary}"
ResponseCacheKey(original_query, sql_query, data) ==
    original_query \o <<124>> \o sql_query \o <<124>> \o SummarizeData(data)

\* `if cached_sql:` and `if cached_response:`: None and "" are falsy
Truthy(cached) == cached # None /\ cached[1] # <<>>

\* the natural-language queries: "q"
NaturalQueries == { <<113>> }

\* the answers of the language model to the prompt of generate_sql, None when
\* generate_content raises:
\*   "SELECT 1"   "select date('now')"   "```sql\nSELECT 1\n```"   "DROP"   " "
SqlReplies ==
    { None,
      Some(<<83, 69, 76, 69, 67, 84, 32, 49>>),
      Some(<<115, 101, 108, 101, 99, 116, 32,
             100, 97, 116, 101, 40, 39, 110, 111, 119, 39, 41>>),
      Some(<<96, 96, 96, 115, 113, 108, 10,
             83, 69, 76, 69, 67, 84, 32, 49, 10, 96, 96, 96>>),
      Some(<<68, 82, 79, 80>>),
      Some(<<32>>) }

\* the arguments generate_response is given: the query "q", the SQL
\* "SELECT 1", and no record or the one record {}
ResponseArgs ==
    { << <<113>>, data, <<83, 69, 76, 69, 67, 84, 32, 49>> >> :
          data \in { <<>>, << <<123, 125>> >> } }

\* the key query_cache.get and set derive from what generate_sql passes them
SqlKeyOf ==
    [natural_query \in NaturalQueries |->
        [db \in Databases |->
            GenerateKey(natural_query, Some(SqlContext(GetSchema[db])))]]

\* the key query_cache.get and set derive from what generate_response passes
ResponseKeyOf ==
    [args \in ResponseArgs |->
        GenerateKey(ResponseCacheKey(args[1], args[3], args[2]),
                    Some(ResponseContext))]

\* the answers of the language model to the prompt of generate_response, None
\* when generate_content raises:  "ok"   " "
ResponseReplies == { None, Some(<<111, 107>>), Some(<<32>>) }

\* line 201: "No data found for your query."
NoDataFound ==
    <<78, 111, 32, 100, 97, 116, 97, 32, 102, 111, 117, 110, 100, 32,
      102, 111, 114, 32, 121, 111, 117, 114, 32, 113, 117, 101, 114, 121, 46>>

\* _format_data_insights(data) for records with no numeric column:
\* "Total records: N"
FormatDataInsights(data) ==
    <<84, 111, 116, 97, 108, 32, 114, 101, 99, 111, 114, 100, 115, 58, 32>>
    \o Digits(Len(data))

\* line 242: the text made of the records when the language model fails,
\* "Based on the data, I found N records. Here are the key insights: ..."
Fallback(data) ==
    <<66, 97, 115, 101, 100, 32, 111, 110, 32, 116, 104, 101, 32,
      100, 97, 116, 97, 44, 32, 73, 32, 102, 111, 117, 110, 100, 32>>
    \o Digits(Len(data))
    \o <<32, 114, 101, 99, 111, 114, 100, 115, 46, 32, 72, 101, 114, 101, 32, 97, 114, 101,
       32, 116, 104, 101, 32, 107, 101, 121, 32, 105, 110, 115, 105, 103, 104, 116, 115, 58, 32>>
    \o FormatDataInsights(data)

NoOutcome == [kind |-> "none", value |-> <<>>]

Idle ==
    [pc |-> "idle", op |-> "none", key |-> NoKey, schema |-> "", data |-> <<>>,
     got |-> None, reply |-> None, out |-> NoOutcome]

(***************************************************************************)
(* State.                                                                  *)
(*   max_size, default_ttl  the configuration given to __init__            *)
(*   now                    the reading of time.time()                     *)
(*   cache                  self._cache                                    *)
(*   lock                   the thread holding self._lock, or NoThread     *)
(*   pc, call, ret          each caller's position, its call (operation,   *)
(*                          key, arguments, current_time) and the value    *)
(*                          the body computed for it to return             *)
(*   hist                   history: for each key still stored, the set    *)
(*                          call that stored it (payload, clock reading    *)
(*                          and ttl argument)                              *)
(*   old                    history: the entries the body a caller has     *)
(*                          just run replaced, updated or removed          *)
(*   mine                   history, kept by SpecSets and SpecOrder: for   *)
(*                          each caller and key, the payloads of the       *)
(*                          caller's latest set of the key and of the sets *)
(*                          of the key that held the lock after it         *)
(*   swept                  history, kept by SpecSweep: the clock reading  *)
(*                          and the result of the latest cleanup_expired   *)
(*                          and of the one before it, while no set has run *)
(*                          since                                          *)
(*   forms                  the inputs of SpecKeys: the request its sets   *)
(*                          are made under and the request its gets are    *)
(*                          made under                                     *)
(*   heap                   kept by SpecAlias, whose payloads are          *)
(*                          references to mutable objects: for each object *)
(*                          its content, and whether a caller holds a      *)
(*                          reference to it (it passed the object to set   *)
(*                          or received it from get)                       *)
(*   schema                 the state of the database, which              *)
(*                          db_handler.get_schema() reads                  *)
(*   handler                LLMHandler: the position of the call of        *)
(*                          generate_sql or generate_response in progress, *)
(*                          its cache key, the schema it read, what the    *)
(*                          cache and the language model answered, and the *)
(*                          outcome of the latest call                     *)
(*   made                   history, kept by SpecHandler: for each key the *)
(*                          handler has set, the schema read by the call   *)
(*                          that set it last and the text that call        *)
(*                          returned                                       *)
(***************************************************************************)
VARIABLES max_size, default_ttl, now, cache, lock, pc, call, ret, hist, old,
          mine, swept, forms, heap, schema, handler, made

vars ==
    <<max_size, default_ttl, now, cache, lock, pc, call, ret, hist, old,
      mine, swept, forms, heap, schema, handler, made>>

\* what the steps of the store's operations leave alone
apart == <<forms, heap, schema, handler, made>>

NoCall == [op |-> "none", key |-> NoKey, data |-> "", ttl |-> None, cur |-> 0]

TtlArgs == {None} \cup {Some(n) : n \in Ttls}

\* __init__ with the given configuration
InitStore(sizes, ttls) ==
    /\ max_size \in sizes
    /\ default_ttl \in ttls
    /\ now = 1
    /\ cache = <<>>
    /\ lock = NoThread
    /\ pc = [t \in Threads |-> "idle"]
    /\ call = [t \in Threads |-> NoCall]
    /\ ret = [t \in Threads |-> None]
    /\ hist = [k \in KeySet |-> None]
    /\ old = [t \in Threads |-> {}]
    /\ mine = [t \in Threads |-> [k \in KeySet |-> {}]]
    /\ swept = <<>>

\* the database as created, no call of the handler made yet
InitHandler ==
    /\ schema = "date"
    /\ handler = Idle
    /\ made = {}

InitWith(sizes, ttls) ==
    /\ InitStore(sizes, ttls)
    /\ forms = <<>>
    /\ heap = <<>>
    /\ InitHandler

\* a cache of positive capacity
Init == InitWith(Sizes, Ttls)

\* the degenerate configuration max_size = 0
InitZero == InitWith({0}, Ttls)

\* the history after a step that leaves store c2; puts is the set call, if any
HistAfter(c2, puts) ==
    [k \in KeySet |->
        IF puts # None /\ puts[1].key = k
        THEN Some([data |-> puts[1].data, at |-> puts[1].cur, ttl |-> puts[1].ttl])
        ELSE IF Has(c2, k) THEN hist[k] ELSE None]

\* a caller enters an operation: the statements before `with self._lock`
Enter(t, c) ==
    /\ pc[t] = "idle"
    /\ pc' = [pc EXCEPT ![t] = "wait"]
    /\ call' = [call EXCEPT ![t] = c]
    /\ UNCHANGED <<max_size, default_ttl, now, cache, lock, ret, hist, old>>

\* get is called.  The key of line 77 is a pure function of the arguments
\* that nothing reads before the body does, so the model draws the arguments
\* and derives the key in the body.
CallGet(t) == Enter(t, [NoCall EXCEPT !.op = "get"])

\* set is called; line 111: the clock is read before the lock is taken
CallSet(t) == Enter(t, [NoCall EXCEPT !.op = "set", !.cur = now])

CallClear(t) == Enter(t, [NoCall EXCEPT !.op = "clear"])

CallStats(t) == Enter(t, [NoCall EXCEPT !.op = "stats"])

\* cleanup_expired is called; line 169: the clock is read before the lock is taken
CallCleanup(t) == Enter(t, [NoCall EXCEPT !.op = "cleanup_expired", !.cur = now])

\* mutant: the body runs without waiting for the lock to be free
Locked_Unguarded(t, o, c, c2, r) ==
    /\ pc[t] = "wait"
    /\ call[t].op = o
    /\ lock' = t
    /\ pc' = [pc EXCEPT ![t] = "crit"]
    /\ call' = [call EXCEPT ![t] = c]
    /\ cache' = c2
    /\ ret' = [ret EXCEPT ![t] = r]
    /\ hist' = HistAfter(c2, IF o = "set" THEN Some(c) ELSE None)
    /\ old' = [old EXCEPT ![t] = EntriesOf(cache) \ EntriesOf(c2)]
    /\ UNCHANGED <<max_size, default_ttl, now>>

\* `with self._lock:` and the body under it, for a caller waiting with operation
\* o: the body leaves store c2 and computes r; c is the call with its arguments
Locked(t, o, c, c2, r) ==
    /\ pc[t] = "wait"
    /\ call[t].op = o
    /\ lock = NoThread
    /\ lock' = t
    /\ pc' = [pc EXCEPT ![t] = "crit"]
    /\ call' = [call EXCEPT ![t] = c]
    /\ cache' = c2
    /\ ret' = [ret EXCEPT ![t] = r]
    /\ hist' = HistAfter(c2, IF o = "set" THEN Some(c) ELSE None)
    /\ old' = [old EXCEPT ![t] = EntriesOf(cache) \ EntriesOf(c2)]
    /\ UNCHANGED <<max_size, default_ttl, now>>

\* get(query, context), lines 77-98; current_time is read under the lock
Get(t, requests) ==
    \E r \in requests :
        LET key == DerivedKey(r) IN
        /\ Has(cache, key) => Lookup(cache, key).access_count < MaxAccess
        /\ Locked(t, "get", [call[t] EXCEPT !.key = key, !.cur = now],
                  GetStore(cache, key, now, default_ttl),
                  GetResult(cache, key, now, default_ttl))

\* set(query, data, context, ttl), lines 110-125
Set(t, requests, payloads, ttls) ==
    \E r \in requests, d \in payloads, ttl \in ttls :
        LET key == DerivedKey(r) IN
        Locked(t, "set", [call[t] EXCEPT !.key = key, !.data = d, !.ttl = ttl],
               SetStore(cache, key, d, ttl, call[t].cur, max_size),
               None)

\* clear, lines 143-145
Clear(t) == Locked(t, "clear", call[t], ClearStore(cache), None)

\* stats, lines 149-165
Stats(t) == Locked(t, "stats", call[t], cache, StatsOf(cache, max_size))

\* cleanup_expired, lines 172-178; len(expired_keys) is what line 183 returns
CleanupExpired(t) ==
    Locked(t, "cleanup_expired", call[t],
           CleanupStore(cache, call[t].cur, default_ttl),
           Len(ExpiredKeys(cache, call[t].cur, default_ttl)))

\* mutant: the caller returns without releasing the lock
Return_KeepsLock(t) ==
    /\ pc[t] = "crit"
    /\ lock = t
    /\ pc' = [pc EXCEPT ![t] = "idle"]
    /\ call' = [call EXCEPT ![t] = NoCall]
    /\ ret' = [ret EXCEPT ![t] = None]
    /\ old' = [old EXCEPT ![t] = {}]
    /\ UNCHANGED <<max_size, default_ttl, now, cache, lock, hist>>

\* the end of the `with` block and the return to the caller
Return(t) ==
    /\ pc[t] = "crit"
    /\ lock = t
    /\ lock' = NoThread
    /\ pc' = [pc EXCEPT ![t] = "idle"]
    /\ call' = [call EXCEPT ![t] = NoCall]
    /\ ret' = [ret EXCEPT ![t] = None]
    /\ old' = [old EXCEPT ![t] = {}]
    /\ UNCHANGED <<max_size, default_ttl, now, cache, hist>>

\* time passes
Tick ==
    /\ now < MaxTime
    /\ now' = now + 1
    /\ UNCHANGED <<max_size, default_ttl, cache, lock, pc, call, ret, hist, old>>

\* the steps of the callers in T, with arguments drawn from the given sets
NextOf(T, requests, payloads, ttls) ==
    \/ \E t \in T : CallGet(t)
    \/ \E t \in T : CallSet(t)
    \/ \E t \in T : CallClear(t)
    \/ \E t \in T : CallStats(t)
    \/ \E t \in T : CallCleanup(t)
    \/ \E t \in T : Get(t, requests)
    \/ \E t \in T : Set(t, requests, payloads, ttls)
    \/ \E t \in T : Clear(t)
    \/ \E t \in T : Stats(t)
    \/ \E t \in T : CleanupExpired(t)
    \/ \E t \in T : Return(t)
    \/ Tick

\* One caller at a time, every request, payload and ttl argument.
Next ==
    NextOf({"t1"}, Requests, Data, TtlArgs) /\ UNCHANGED <<mine, swept, apart>>

Spec == Init /\ [][Next]_vars

SpecZero == InitZero /\ [][Next]_vars

\* Concurrent callers: distinct keys, one payload, no ttl argument.
ConcRequests == {r \in Requests : r[2] # Some(<<>>)}

InitConc == InitWith(Sizes, {1})

NextConc ==
    NextOf(Threads, ConcRequests, {"v1"}, {None}) /\ UNCHANGED <<mine, swept, apart>>

SpecConc == InitConc /\ [][NextConc]_vars

\* the caller, if any, whose body of operation o this step runs
Runs(o) == {t \in Threads : pc[t] = "wait" /\ call[t].op = o /\ pc'[t] = "crit"}

\* mine after this step: a set of key k by caller t makes its payload the only
\* one of t for k, and one more for each caller that has set k before
MineAfter ==
    [u \in Threads |->
        [k \in KeySet |->
            IF \E t \in Runs("set") : call'[t].key = k
            THEN LET t == CHOOSE x \in Runs("set") : TRUE
                 IN  IF u = t THEN {call'[t].data}
                     ELSE IF mine[u][k] = {} THEN {}
                     ELSE mine[u][k] \cup {call'[t].data}
            ELSE mine[u][k]]]

\* swept after this step: the clock reading and the result of a
\* cleanup_expired that ran, after those of the one before it; a set empties it
SweptAfter ==
    IF Runs("cleanup_expired") # {}
    THEN LET t == CHOOSE x \in Runs("cleanup_expired") : TRUE
             this == [at |-> call[t].cur, n |-> ret'[t]]
         IN  IF swept = <<>> THEN <<this>> ELSE <<swept[Len(swept)], this>>
    ELSE IF Runs("set") # {} THEN <<>>
    ELSE swept

\* Concurrent callers that each set once, each a key of its own, a cache that
\* has room for as many entries as there are callers.
HasSet(t) == \E k \in KeySet : mine[t][k] # {}

FreeRequests(t) ==
    {r \in ConcRequests : \A u \in Threads \ {t} : mine[u][KeyOf[r]] = {}}

InitSets == InitWith({Cardinality(Threads)}, Ttls)

NextSets ==
    /\ \/ \E t \in Threads : ~HasSet(t) /\ CallSet(t)
       \/ \E t \in Threads : Set(t, FreeRequests(t), Data, TtlArgs)
       \/ \E t \in Threads : Return(t)
       \/ Tick
    /\ mine' = MineAfter
    /\ UNCHANGED <<swept, apart>>

SpecSets == InitSets /\ [][NextSets]_vars

\* Concurrent callers, one key, every payload, no ttl argument; the callers'
\* sets are recorded.
OrderRequests == {r \in Requests : r[1] = <<97>> /\ r[2] = None}

NextOrder ==
    /\ NextOf(Threads, OrderRequests, Data, {None})
    /\ mine' = MineAfter
    /\ UNCHANGED <<swept, apart>>

SpecOrder == Init /\ [][NextOrder]_vars

\* Concurrent callers, two keys, one payload, no ttl argument, every
\* default_ttl; the reading of the latest cleanup_expired is recorded.
SweepRequests == {r \in Requests : r[2] = None}

NextSweep ==
    /\ NextOf(Threads, SweepRequests, {"v1"}, {None})
    /\ swept' = SweptAfter
    /\ UNCHANGED <<mine, apart>>

SpecSweep == Init /\ [][NextSweep]_vars

\* Concurrent callers under fair scheduling, two keys, a cache of one entry:
\* a caller that holds the lock gets to leave the `with` block, and a caller
\* that waits for the lock gets it if the lock is free again and again.
FairRequests == SweepRequests

\* the body of the operation caller t waits to run, under the lock
Body(t) ==
    /\ \/ Get(t, FairRequests)
       \/ Set(t, FairRequests, {"v1"}, {None})
       \/ Clear(t)
       \/ Stats(t)
       \/ CleanupExpired(t)
    /\ UNCHANGED <<mine, swept, apart>>

\* caller t leaves the `with` block
Leave(t) == Return(t) /\ UNCHANGED <<mine, swept, apart>>

InitFair == InitWith({1}, {1})

NextFair ==
    NextOf(Threads, FairRequests, {"v1"}, {None}) /\ UNCHANGED <<mine, swept, apart>>

SpecFair ==
    /\ InitFair
    /\ [][NextFair]_vars
    /\ \A t \in Threads : WF_vars(Leave(t)) /\ SF_vars(Body(t))

\* One caller, four keys, a cache of three entries, one payload, no ttl
\* argument: an overwrite of a stored key can precede the eviction.
TieRequests ==
    {r \in KeyForms :
        \/ r[1] \in {<<97>>, <<98>>} /\ r[2] = None
        \/ r[1] = <<97>> /\ r[2] \in { Some(<< <<<<115>>, JInt(1)>> >>),
                                      Some(<< <<<<115>>, JInt(2)>> >>) }}

InitTie == InitWith({3}, {1})

NextTie ==
    NextOf({"t1"}, TieRequests, {"v1"}, {None}) /\ UNCHANGED <<mine, swept, apart>>

SpecTie == InitTie /\ [][NextTie]_vars

\* Payloads that are mutable objects: data: Any is stored (line 119) and
\* returned (line 98) as the reference it is.  One caller, one key; between
\* its calls the caller changes the content of an object it holds.
Objects == {"o1", "o2"}

\* the contents of an object: the list ["x"], and the list after append("y")
Contents == { <<"x">>, <<"x", "y">> }

AliasRequests == {r \in Requests : r[1] = <<97>> /\ r[2] = None}

InitAlias ==
    /\ InitStore({1}, {1})
    /\ forms = <<>>
    /\ heap = [o \in Objects |-> [content |-> <<"x">>, held |-> FALSE]]
    /\ InitHandler

\* heap after a step of the store: the caller holds the object it passed to
\* a set that ran and the object a get that ran returns
HeapAfter ==
    [o \in Objects |->
        IF \/ \E t \in Runs("set") : call'[t].data = o
           \/ \E t \in Runs("get") : ret'[t] = Some(o)
        THEN [heap[o] EXCEPT !.held = TRUE]
        ELSE heap[o]]

\* the caller mutates an object it holds, e.g. data.append("y")
Mutate(t, o) ==
    /\ pc[t] = "idle"
    /\ heap[o].held
    /\ \E content \in Contents \ {heap[o].content} :
           heap' = [heap EXCEPT ![o].content = content]
    /\ UNCHANGED <<max_size, default_ttl, now, cache, lock, pc, call, ret, hist,
                   old>>

NextAlias ==
    /\ \/ NextOf({"t1"}, AliasRequests, Objects, {None}) /\ heap' = HeapAfter
       \/ \E t \in {"t1"}, o \in Objects : Mutate(t, o)
    /\ UNCHANGED <<mine, swept, forms, schema, handler, made>>

SpecAlias == InitAlias /\ [][NextAlias]_vars

(***************************************************************************)
(* The steps of LLMHandler.                                                *)
(***************************************************************************)
\* made after the handler has set key k and returns text
MadeAfter(k, text) ==
    {m \in made : m.key # k}
        \cup {[key |-> k, schema |-> handler.schema, returned |-> text]}

\* what the steps of the handler leave alone
HandlerFrame ==
    UNCHANGED <<max_size, default_ttl, now, lock, pc, call, ret, hist, old,
                mine, swept, forms, heap, schema>>

\* query_cache.get(query, context) as the handler calls it, the lock free:
\* the call in progress is h, the outcome on a hit is of the given kind
Lookup_Get(h, kind) ==
    LET cached == GetResult(cache, h.key, now, default_ttl) IN
    /\ handler.pc = "idle"
    /\ lock = NoThread
    /\ Has(cache, h.key) => Lookup(cache, h.key).access_count < MaxAccess
    /\ cache' = GetStore(cache, h.key, now, default_ttl)
    /\ handler' =
           IF Truthy(cached)
           THEN [h EXCEPT !.got = cached, !.out = [kind |-> kind, value |-> cached[1]]]
           ELSE [h EXCEPT !.pc = "generating", !.got = cached]
    /\ UNCHANGED made
    /\ HandlerFrame

\* generate_sql(natural_query), lines 141-149: the key and the lookup
GenerateSqlLookup ==
    \E natural_query \in NaturalQueries :
        Lookup_Get([Idle EXCEPT !.op = "generate_sql",
                                !.schema = schema,
                                !.key = SqlKeyOf[natural_query][schema]],
                   "cached")

\* generate_sql, lines 174-197: the answer of the language model, the test
\* for SELECT, the set and the replacement of relative dates
GenerateSqlFinish ==
    /\ handler.pc = "generating"
    /\ handler.op = "generate_sql"
    /\ lock = NoThread
    /\ \E reply \in SqlReplies :
           LET sql_query == CleanSql(reply[1])
               final == ReplaceRelativeDates(sql_query)
               h == [handler EXCEPT !.pc = "idle", !.reply = reply]
           IN  IF reply = None \/ ~SqlAccepted(sql_query)
               THEN /\ handler' = [h EXCEPT !.out = [kind |-> "raised", value |-> <<>>]]
                    /\ UNCHANGED <<cache, made>>
               ELSE /\ cache' = SetStore(cache, handler.key, sql_query, None, now, max_size)
                    /\ made' = MadeAfter(handler.key, final)
                    /\ handler' = [h EXCEPT !.out = [kind |-> "generated", value |-> final]]
    /\ HandlerFrame

\* generate_response(original_query, data, sql_query), lines 200-201: no data
GenerateResponseNoData ==
    /\ handler.pc = "idle"
    /\ \E args \in ResponseArgs :
           /\ args[2] = <<>>
           /\ handler' = [Idle EXCEPT !.op = "generate_response",
                                      !.out = [kind |-> "nodata", value |-> NoDataFound]]
    /\ UNCHANGED <<cache, made>>
    /\ HandlerFrame

\* generate_response, lines 204-212: the key and the lookup
GenerateResponseLookup ==
    \E args \in ResponseArgs :
        /\ args[2] # <<>>
        /\ Lookup_Get([Idle EXCEPT !.op = "generate_response",
                                   !.data = args[2],
                                   !.key = ResponseKeyOf[args]],
                      "cached")

\* generate_response, lines 230-242: the answer, the set; the fallback when
\* the language model raises
GenerateResponseFinish ==
    /\ handler.pc = "generating"
    /\ handler.op = "generate_response"
    /\ lock = NoThread
    /\ \E reply \in ResponseReplies :
           LET h == [handler EXCEPT !.pc = "idle", !.reply = reply] IN
           IF reply = None
           THEN /\ handler' = [h EXCEPT !.out = [kind |-> "fallback",
                                                 value |-> Fallback(handler.data)]]
                /\ UNCHANGED <<cache, made>>
           ELSE LET response_text == Strip(reply[1]) IN
                /\ cache' = SetStore(cache, handler.key, response_text, None, now, max_size)
                /\ made' = MadeAfter(handler.key, response_text)
                /\ handler' = [h EXCEPT !.out = [kind |-> "generated",
                                                 value |-> response_text]]
    /\ HandlerFrame

\* the schema of the database changes
SchemaChange ==
    /\ schema' \in Databases \ {schema}
    /\ UNCHANGED <<max_size, default_ttl, now, cache, lock, pc, call, ret, hist,
                   old, mine, swept, forms, heap, handler, made>>

\* The handler, one call at a time, on a cache of two entries.
InitHandlerSpec == InitWith({2}, Ttls)

NextHandler ==
    \/ GenerateSqlLookup
    \/ GenerateSqlFinish
    \/ GenerateResponseNoData
    \/ GenerateResponseLookup
    \/ GenerateResponseFinish
    \/ SchemaChange
    \/ Tick /\ UNCHANGED <<mine, swept, apart>>

SpecHandler == InitHandlerSpec /\ [][NextHandler]_vars

\* The derivation of the key: two forms of a request, a caller whose sets
\* are made under the first and whose gets are made under the second.
InitKeys ==
    /\ InitStore({1}, {1})
    /\ forms \in KeyForms \X KeyForms
    /\ heap = <<>>
    /\ InitHandler

NextKeys ==
    /\ \/ \E t \in {"t1"} : CallSet(t)
       \/ \E t \in {"t1"} : Set(t, {forms[1]}, {"v1"}, {None})
       \/ \E t \in {"t1"} : CallGet(t)
       \/ \E t \in {"t1"} : Get(t, {forms[2]})
       \/ \E t \in {"t1"} : Return(t)
       \/ Tick
    /\ UNCHANGED <<mine, swept, apart>>

SpecKeys == InitKeys /\ [][NextKeys]_vars

(***************************************************************************)
(* Vocabulary of the properties.                                           *)
(***************************************************************************)
\* caller t has run the body of operation o and still holds its result
InCrit(t, o) == pc[t] = "crit" /\ call[t].op = o

\* this step is caller t running the body of operation o
BodyStep(t, o) == pc[t] = "wait" /\ call[t].op = o /\ pc'[t] = "crit"

\* the TTL the specification gives an entry: the ttl argument of its set, when
\* one was passed, and default_ttl otherwise
TtlFor(h) == IF h.ttl = None THEN default_ttl ELSE h.ttl[1]

\* the sum of access_count over the entries at the indices in S
RECURSIVE SumOver(_, _)
SumOver(c, S) ==
    IF S = {} THEN 0
    ELSE LET i == CHOOSE x \in S : TRUE
         IN  c[i].access_count + SumOver(c, S \ {i})

\* the number of entries stored under key k
CountOf(c, k) == Cardinality({i \in 1..Len(c) : c[i].key = k})

\* what a JSON value denotes: a dict is a mapping, whatever the order its
\* items were inserted in
RECURSIVE Denotes(_)
Denotes(v) ==
    IF v[1] = "dict"
    THEN <<"dict", {<<v[2][i][1], Denotes(v[2][i][2])>> : i \in 1..Len(v[2])}>>
    ELSE IF v[1] = "list"
    THEN <<"list", [i \in 1..Len(v[2]) |-> Denotes(v[2][i])]>>
    ELSE v

\* the mapping a context argument denotes; an absent context is the empty one
MappingOf(context) ==
    IF context = None THEN Denotes(JDict(<<>>)) ELSE Denotes(JDict(context[1]))

\* the primary text of a request, lower-cased and trimmed
NormalizedText(r) == Strip(Lower(r[1]))

\* two requests with the same normalized text and the same context mapping
SameRequest(r1, r2) ==
    NormalizedText(r1) = NormalizedText(r2) /\ MappingOf(r1[2]) = MappingOf(r2[2])

\* the latest call of the handler was operation o and was served from the cache
Served(o) == handler.pc = "idle" /\ handler.op = o /\ handler.out.kind = "cached"

\* what the handler recorded when it last set the key of its latest call
MadeFor(k) == {m \in made : m.key = k}

\* this step is the lookup of a call of the handler
LookupStep ==
    /\ handler.pc = "idle"
    /\ handler'.key # NoKey
    /\ <<handler, cache>>' # <<handler, cache>>

\* this step is the rest of a call of the handler after a miss
FinishStep == handler.pc = "generating" /\ handler'.pc = "idle"

\* the keys of the sql_generation context
SqlKeySet == {SqlKeyOf[q][db] : q \in NaturalQueries, db \in Databases}

\* text starts with SELECT, in any case of letters
StartsWithSelect(text) ==
    /\ Len(text) >= 6
    /\ Lower(SubSeq(text, 1, 6)) = <<115, 101, 108, 101, 99, 116>>

(***************************************************************************)
(* C1: With max_size >= 1 the store never holds more than max_size entries,*)
(* in every interleaving of get, set, clear, cleanup_expired and stats; in *)
(* particular not after a set has completed.                               *)
(***************************************************************************)
C1_BoundedSize == max_size >= 1 => Len(cache) <= max_size

\* a set has completed on a full store by evicting, while another caller waits
C1_Witness ==
    \E t \in Threads, u \in Threads :
        /\ InCrit(t, "set") /\ pc[u] = "wait"
        /\ Len(cache) = max_size
        /\ \E e \in old[t] : e.key # call[t].key

(***************************************************************************)
(* C2: Miss-then-hit.  A get on an empty store returns None; a get of a key *)
(* whose latest set passed no ttl, is at most default_ttl old and has not  *)
(* been removed since returns exactly the payload of that set.             *)
(***************************************************************************)
C2_MissThenHit ==
    [][\A t \in Threads :
          BodyStep(t, "get") =>
              LET k == call'[t].key IN
              /\ cache = <<>> => ret'[t] = None
              /\ (/\ hist[k] # None
                  /\ hist[k][1].ttl = None
                  /\ now - hist[k][1].at <= default_ttl)
                 => ret'[t] = Some(hist[k][1].data)]_vars

C2_Witness ==
    \E t \in Threads :
        /\ InCrit(t, "get")
        /\ hist[call[t].key] # None
        /\ hist[call[t].key][1].ttl = None
        /\ ret[t] = Some(hist[call[t].key][1].data)

(***************************************************************************)
(* C3: A get returns only the payload of a LIVE entry: the payload of the  *)
(* latest set on the key, which has not been removed since and is no older *)
(* than its TTL (the ttl argument of that set, else default_ttl).          *)
(***************************************************************************)
C3_OnlyLive ==
    \A t \in Threads :
        (InCrit(t, "get") /\ ret[t] # None) =>
            LET h == hist[call[t].key] IN
            /\ h # None
            /\ ret[t] = Some(h[1].data)
            /\ call[t].cur - h[1].at <= TtlFor(h[1])

(***************************************************************************)
(* C4: TTL expiry on read.  A get of a stored key at a clock reading       *)
(* strictly greater than its timestamp plus default_ttl returns None and   *)
(* removes the entry, and stats reports as size the number of keys stored. *)
(***************************************************************************)
C4_ExpiryOnRead ==
    [][\A t \in Threads :
          /\ BodyStep(t, "get") =>
                LET k == call'[t].key IN
                (Has(cache, k) /\ now > Lookup(cache, k).timestamp + default_ttl)
                    => /\ ret'[t] = None
                       /\ ~Has(cache', k)
                       /\ Len(cache') = Len(cache) - 1
          /\ BodyStep(t, "stats") =>
                ret'[t].size = Cardinality(KeysOf(cache))]_vars

\* a get has found its key expired and removed it
C4_Witness ==
    \E t \in Threads :
        /\ InCrit(t, "get")
        /\ ret[t] = None
        /\ \E e \in old[t] : e.key = call[t].key
        /\ ~Has(cache, call[t].key)

(***************************************************************************)
(* C5: The ttl argument of set governs the entry's expiry: get and         *)
(* cleanup_expired remove an entry exactly when its age exceeds the ttl    *)
(* its set passed, and use default_ttl only for entries set without one.   *)
(***************************************************************************)
C5_TtlOverride ==
    [][\A t \in Threads :
          /\ BodyStep(t, "get") =>
                LET k == call'[t].key IN
                Has(cache, k) =>
                    (ret'[t] = None <=>
                        now - Lookup(cache, k).timestamp > TtlFor(hist[k][1]))
          /\ BodyStep(t, "cleanup_expired") =>
                \A k \in KeysOf(cache) :
                    ~Has(cache', k) <=>
                        call[t].cur - Lookup(cache, k).timestamp > TtlFor(hist[k][1])]_vars

(***************************************************************************)
(* C6: With max_size >= 1, a set of a key that is not stored, into a store *)
(* that holds max_size entries, removes exactly one entry, one whose       *)
(* last_accessed is minimal, and leaves the others as they were;           *)
(* last_accessed is the clock reading of the entry's latest hit, or of its *)
(* set when it was never hit.                                              *)
(***************************************************************************)
C6_LruVictim ==
    [][\A t \in Threads :
          /\ BodyStep(t, "set") =>
                LET k == call'[t].key IN
                /\ Lookup(cache', k).last_accessed = call[t].cur
                /\ (~Has(cache, k) /\ Len(cache) = max_size) =>
                      \E v \in EntriesOf(cache) :
                          /\ \A e \in EntriesOf(cache) :
                                v.last_accessed <= e.last_accessed
                          /\ EntriesOf(cache') =
                                (EntriesOf(cache) \ {v}) \cup {Lookup(cache', k)}
                          /\ Len(cache') = Len(cache)
          /\ (BodyStep(t, "get") /\ ret'[t] # None) =>
                Lookup(cache', call'[t].key).last_accessed = now]_vars

\* max_size = 2: set A, set B, get A, set C has evicted B, which was stored no
\* earlier than A, and kept A and C
C6_Witness ==
    \E t \in Threads :
        /\ InCrit(t, "set")
        /\ max_size = 2
        /\ Len(cache) = 2
        /\ cache[1].access_count = 1
        /\ cache[2].key = call[t].key
        /\ \E e \in old[t] :
              /\ e.key \notin KeysOf(cache)
              /\ e.timestamp >= cache[1].timestamp
              /\ e.last_accessed < cache[1].last_accessed

(***************************************************************************)
(* C7: A set of a key that is already stored evicts nothing: the stored    *)
(* keys and the size are unchanged and every other entry is untouched.     *)
(***************************************************************************)
C7_OverwriteEvictsNothing ==
    [][\A t \in Threads :
          BodyStep(t, "set") =>
              LET k == call'[t].key IN
              Has(cache, k) =>
                  /\ KeysOf(cache') = KeysOf(cache)
                  /\ Len(cache') = Len(cache)
                  /\ \A e \in EntriesOf(cache) :
                        e.key # k => e \in EntriesOf(cache')]_vars

(***************************************************************************)
(* C8: A set replaces the entry of its key: once it has completed, the     *)
(* store holds exactly one entry for the key, with the payload of this set,*)
(* access_count 0 and timestamp = last_accessed = the clock reading of     *)
(* this set, whatever entry the key had before.                            *)
(***************************************************************************)
C8_OverwriteReplaces ==
    \A t \in Threads :
        InCrit(t, "set") =>
            /\ CountOf(cache, call[t].key) = 1
            /\ Lookup(cache, call[t].key) =
                  CacheEntry(call[t].key, call[t].data, call[t].cur, 0, call[t].cur)

\* a set has overwritten an entry that had been hit and held another payload
C8_Witness ==
    \E t \in Threads :
        /\ InCrit(t, "set")
        /\ \E e \in old[t] :
              /\ e.key = call[t].key
              /\ e.access_count >= 1
              /\ e.data # call[t].data

(***************************************************************************)
(* C9: With max_size = 0 the cache retains nothing: the store is empty     *)
(* once a set has completed, and every get returns None.                   *)
(***************************************************************************)
C9_ZeroRetainsNothing ==
    max_size = 0 =>
        \A t \in Threads :
            /\ InCrit(t, "set") => cache = <<>>
            /\ InCrit(t, "get") => ret[t] = None

(***************************************************************************)
(* C10: With default_ttl = 0 every get returns None, also a get at the     *)
(* clock reading of the set that stored its key.                           *)
(***************************************************************************)
C10_StaleAtOnce ==
    default_ttl = 0 => \A t \in Threads : InCrit(t, "get") => ret[t] = None

(***************************************************************************)
(* C10, amended: With default_ttl = 0 a get of a stored key returns None   *)
(* exactly when the clock reads strictly later than the reading its set    *)
(* recorded; at that same reading it still returns the payload.            *)
(***************************************************************************)
C10_StaleOnceClockAdvances ==
    [][\A t \in Threads :
          (default_ttl = 0 /\ BodyStep(t, "get")) =>
              LET k == call'[t].key IN
              Has(cache, k) =>
                  /\ now > Lookup(cache, k).timestamp => ret'[t] = None
                  /\ now = Lookup(cache, k).timestamp =>
                        ret'[t] = Some(Lookup(cache, k).data)]_vars

\* default_ttl = 0 and a get one clock reading after the set has missed
C10_Witness ==
    \E t \in Threads :
        /\ default_ttl = 0
        /\ InCrit(t, "get")
        /\ ret[t] = None
        /\ \E e \in old[t] : e.key = call[t].key /\ call[t].cur > e.timestamp

(***************************************************************************)
(* C11: Concurrent sets lose no writes.  Callers as many as max_size, that *)
(* each set one key of its own in an empty cache, leave in every           *)
(* interleaving one entry per set, holding the payload that set supplied.  *)
(***************************************************************************)
C11_NoLostWrites ==
    /\ Len(cache) = Cardinality({t \in Threads : HasSet(t)})
    /\ \A t \in Threads, k \in KeySet :
          mine[t][k] # {} =>
              /\ CountOf(cache, k) = 1
              /\ mine[t][k] = {Lookup(cache, k).data}

\* every caller has set its key; the set that read the clock last took the lock
\* first
C11_Witness ==
    /\ \A t \in Threads : HasSet(t)
    /\ Len(cache) = Cardinality(Threads)
    /\ cache[1].timestamp > cache[2].timestamp
    /\ cache[1].data # cache[2].data

(***************************************************************************)
(* C12: get, set, clear, cleanup_expired and stats exclude each other on   *)
(* the store: at most one caller is in a body, it holds the lock, the      *)
(* store changes only in the step in which a caller takes the free lock    *)
(* and runs its whole body, and not while that caller is in it.            *)
(***************************************************************************)
C12_MutualExclusion ==
    [][/\ \A t, u \in Threads : (pc'[t] = "crit" /\ pc'[u] = "crit") => t = u
       /\ \A t \in Threads : pc'[t] = "crit" <=> lock' = t
       /\ cache' # cache =>
             \E t \in Threads : lock = NoThread /\ pc[t] = "wait" /\ pc'[t] = "crit"
       /\ \A t \in Threads : pc[t] = "crit" => cache' = cache
      ]_vars

\* a caller is in the body of get while another waits to set
C12_Witness ==
    \E t \in Threads, u \in Threads :
        /\ InCrit(t, "get") /\ ret[t] # None /\ lock = t
        /\ pc[u] = "wait" /\ call[u].op = "set"

(***************************************************************************)
(* C13: Callers that get the same expired key, among themselves and with   *)
(* cleanup_expired: the one that finds the entry returns None and removes  *)
(* it, the ones that come after it find no entry, return None and leave    *)
(* the store as it is; each body removes only entries that are stored.     *)
(***************************************************************************)
C13_ExpiredOnce ==
    [][\A t \in Threads :
          /\ BodyStep(t, "get") =>
                LET k == call'[t].key IN
                /\ (Has(cache, k) /\ now - Lookup(cache, k).timestamp > default_ttl)
                      => /\ ret'[t] = None
                         /\ old'[t] = {Lookup(cache, k)}
                         /\ CountOf(cache', k) = 0
                /\ ~Has(cache, k)
                      => /\ ret'[t] = None
                         /\ old'[t] = {}
                         /\ cache' = cache
          /\ BodyStep(t, "cleanup_expired") =>
                /\ Len(cache') = Len(cache) - Cardinality(old'[t])
                /\ ret'[t] = Cardinality(old'[t])]_vars

\* a get has found its key gone, after a cleanup_expired removed both keys and
\* no set ran since, while the other caller is in a get of its own
C13_Witness ==
    \E t \in Threads, u \in Threads :
        /\ InCrit(t, "get") /\ ret[t] = None /\ old[t] = {}
        /\ swept # <<>> /\ swept[Len(swept)].n = 2
        /\ ~Has(cache, call[t].key)
        /\ pc[u] = "wait" /\ call[u].op = "get"

(***************************************************************************)
(* C14: Per-key real-time order.  A get by a caller that has completed a   *)
(* set of its key returns the payload of that set, the payload of a set of *)
(* the key that held the lock after it, or None; never an older payload.   *)
(***************************************************************************)
C14_ReadYourWrites ==
    [][\A t \in Threads :
          BodyStep(t, "get") =>
              LET k == call'[t].key IN
              mine[t][k] # {} => (ret'[t] = None \/ ret'[t][1] \in mine[t][k])]_vars

\* a get returns the payload another caller set after the caller's own set
C14_Witness ==
    \E t \in Threads :
        /\ InCrit(t, "get")
        /\ ret[t] # None
        /\ Cardinality(mine[t][call[t].key]) = 2
        /\ \E u \in Threads \ {t} : mine[u][call[t].key] = {ret[t][1]}

(***************************************************************************)
(* C15: A get of a key that is not stored returns None and leaves the      *)
(* store as it is: no entry added, removed or changed.                     *)
(***************************************************************************)
C15_MissChangesNothing ==
    [][\A t \in Threads :
          (BodyStep(t, "get") /\ ~Has(cache, call'[t].key)) =>
              /\ ret'[t] = None
              /\ cache' = cache]_vars

\* a get has missed in a store that holds other keys, one of them hit before
C15_Witness ==
    \E t \in Threads :
        /\ InCrit(t, "get")
        /\ ret[t] = None
        /\ old[t] = {}
        /\ ~Has(cache, call[t].key)
        /\ \E e \in EntriesOf(cache) : e.access_count >= 1

C17_CleanupExact ==
    [][\A t \in Threads :
          BodyStep(t, "cleanup_expired") =>
              /\ \A e \in EntriesOf(cache) :
                    e \notin EntriesOf(cache') <=>
                        call[t].cur - e.timestamp > TtlFor(hist[e.key][1])
              /\ EntriesOf(cache') \subseteq EntriesOf(cache)
              /\ ret'[t] = Len(cache) - Len(cache')]_vars

(***************************************************************************)
(* C18: Of two cleanup_expired calls in a row, with no set between them,   *)
(* the second returns 0.                                                   *)
(***************************************************************************)
C18_SecondReturnsZero == Len(swept) = 2 => swept[2].n = 0

(***************************************************************************)
(* C18, amended: Of two cleanup_expired calls in a row, with no set        *)
(* between them, the second returns 0 when the clock reading it took is no *)
(* later than the reading of the first.                                    *)
(***************************************************************************)
C18_SecondAtSameReading ==
    (Len(swept) = 2 /\ swept[2].at <= swept[1].at) => swept[2].n = 0

\* the first call removed an entry, the second read the same clock and found
\* nothing to remove in a store that is not empty
C18_Witness ==
    /\ Len(swept) = 2
    /\ swept[1].n >= 1
    /\ swept[2].at = swept[1].at
    /\ swept[2].n = 0
    /\ \E t \in Threads : InCrit(t, "cleanup_expired")

(***************************************************************************)
(* C19: clear removes every entry, whatever the store holds.  Until a set  *)
(* runs the store stays empty: stats reports size 0 and total_accesses 0   *)
(* and every get returns None.                                             *)
(***************************************************************************)
C19_ClearEmpties ==
    [][/\ \A t \in Threads : BodyStep(t, "clear") => cache' = <<>>
       /\ (cache = <<>> /\ \A t \in Threads : ~BodyStep(t, "set")) => cache' = <<>>
       /\ \A t \in Threads :
             (BodyStep(t, "stats") /\ cache = <<>>) =>
                 ret'[t].size = 0 /\ ret'[t].total_accesses = 0
       /\ \A t \in Threads :
             (BodyStep(t, "get") /\ cache = <<>>) => ret'[t] = None]_vars

\* clear has emptied a full store of two entries, one of them hit
C19_Witness ==
    \E t \in Threads :
        /\ InCrit(t, "clear")
        /\ cache = <<>>
        /\ Cardinality(old[t]) = 2
        /\ \E e \in old[t] : e.access_count >= 1

(***************************************************************************)
(* C20: stats reports the store as it is: size the number of entries,      *)
(* total_accesses the sum of their access_count, hit_rate the quotient     *)
(* total_accesses / size for size > 0 and 0.0 for size = 0, oldest_entry   *)
(* and newest_entry the least and the greatest timestamp, None for the     *)
(* empty store; and stats changes nothing in the store.                    *)
(***************************************************************************)
C20_StatsProjection ==
    [][\A t \in Threads :
          BodyStep(t, "stats") =>
              LET r == ret'[t]
                  n == Cardinality(1..Len(cache))
                  total == SumOver(cache, 1..Len(cache))
              IN  /\ r.size = n
                  /\ r.max_size = max_size
                  /\ r.total_accesses = total
                  /\ r.hit_rate[2] # 0
                  /\ IF n > 0 THEN r.hit_rate[1] * n = total * r.hit_rate[2]
                     ELSE r.hit_rate[1] = 0
                  /\ IF n = 0 THEN r.oldest_entry = None /\ r.newest_entry = None
                     ELSE /\ r.oldest_entry # None /\ r.newest_entry # None
                          /\ \E e \in EntriesOf(cache) : e.timestamp = r.oldest_entry[1]
                          /\ \E e \in EntriesOf(cache) : e.timestamp = r.newest_entry[1]
                          /\ \A e \in EntriesOf(cache) :
                                /\ r.oldest_entry[1] <= e.timestamp
                                /\ e.timestamp <= r.newest_entry[1]
                  /\ cache' = cache]_vars

\* stats of a store of two entries set at different clock readings, one hit
C20_Witness ==
    \E t \in Threads :
        /\ InCrit(t, "stats")
        /\ ret[t].size = 2
        /\ ret[t].total_accesses = 1
        /\ ret[t].hit_rate = <<1, 2>>
        /\ ret[t].oldest_entry # ret[t].newest_entry

(***************************************************************************)
(* C21: Key stability.  Two requests whose texts are equal after           *)
(* lower-casing and trimming and whose contexts are equal as mappings,     *)
(* whatever the insertion order of their keys at any depth, an absent      *)
(* context counting as the empty one, derive the same key; a get under one *)
(* form returns the payload set under the other while the entry is live.   *)
(***************************************************************************)
C21_KeyStability ==
    [][\A t \in Threads :
          (BodyStep(t, "get") /\ SameRequest(forms[1], forms[2])) =>
              /\ DerivedKey(forms[1]) = DerivedKey(forms[2])
              /\ (cache # <<>> /\ now - cache[1].timestamp <= default_ttl)
                 => ret'[t] = Some(cache[1].data)]_vars

\* a get under " A" with {"n": {"t": 2, "s": 1}} has hit the entry set under
\* "a" with {"n": {"s": 1, "t": 2}}
C21_Witness ==
    \E t \in Threads :
        /\ InCrit(t, "get")
        /\ ret[t] = Some("v1")
        /\ forms[1] = << <<97>>,
               Some(<< <<<<110>>, JDict(<< <<<<115>>, JInt(1)>>, <<<<116>>, JInt(2)>> >>)>> >>) >>
        /\ forms[2] = << <<32, 65>>,
               Some(<< <<<<110>>, JDict(<< <<<<116>>, JInt(2)>>, <<<<115>>, JInt(1)>> >>)>> >>) >>

(***************************************************************************)
(* C22: Key sensitivity.  Two requests whose normalized texts differ, or   *)
(* whose contexts differ in a key or in a value, derive different keys (the*)
(* digest taken to be free of collisions), and a get under one never hits  *)
(* what was set under the other.                                           *)
(***************************************************************************)
C22_KeySensitivity ==
    [][\A t \in Threads :
          (BodyStep(t, "get") /\ ~SameRequest(forms[1], forms[2])) =>
              /\ DerivedKey(forms[1]) # DerivedKey(forms[2])
              /\ ret'[t] = None
              /\ cache' = cache]_vars

\* a get under "a" with {"s": 2} has missed while the entry set under "a"
\* with {"s": 1} is stored
C22_Witness ==
    \E t \in Threads :
        /\ InCrit(t, "get")
        /\ ret[t] = None
        /\ cache # <<>>
        /\ forms[1] = << <<97>>, Some(<< <<<<115>>, JInt(1)>> >>) >>
        /\ forms[2] = << <<97>>, Some(<< <<<<115>>, JInt(2)>> >>) >>

C28_CacheTransparent ==
    Served("generate_sql") =>
        \A m \in MadeFor(handler.key) : handler.out.value = m.returned

(***************************************************************************)
(* C29: Whenever the cache's get returns a payload to generate_sql or      *)
(* generate_response, the call returns that payload, without calling the   *)
(* language model and without a set; for every payload a set accepted, the *)
(* empty string too.                                                       *)
(***************************************************************************)
C29_HitIsReturned ==
    [][(LookupStep /\ handler'.got # None) =>
          /\ handler'.pc = "idle"
          /\ handler'.out = [kind |-> "cached", value |-> handler'.got[1]]]_vars

(***************************************************************************)
(* C30: A failed generation never populates the cache.  When the language  *)
(* model raises or answers text that is no SELECT statement, generate_sql  *)
(* raises and leaves the store as it is; when it raises in                 *)
(* generate_response, the fallback text is returned and the store is left  *)
(* as it is.  Every payload stored under the sql_generation context starts *)
(* with SELECT, in any case of letters.                                    *)
(***************************************************************************)
C30_FailureStoresNothing ==
    [][/\ (/\ FinishStep
           /\ handler.op = "generate_sql"
           /\ \/ handler'.reply = None
              \/ ~StartsWithSelect(CleanSql(handler'.reply[1])))
          => (cache' = cache /\ handler'.out.kind = "raised")
       /\ (/\ FinishStep
           /\ handler.op = "generate_response"
           /\ handler'.reply = None)
          => (cache' = cache /\ handler'.out.kind = "fallback")
       /\ \A e \in EntriesOf(cache') :
              e.key \in SqlKeySet => StartsWithSelect(e.data)]_vars

\* generate_sql has raised on the answer "DROP" while the store holds SQL
C30_Witness ==
    /\ handler.op = "generate_sql"
    /\ handler.out.kind = "raised"
    /\ handler.reply = Some(<<68, 82, 79, 80>>)
    /\ \E e \in EntriesOf(cache) : e.key \in SqlKeySet

(***************************************************************************)
(* C24: The store exclusively owns entry state: a caller that mutates a    *)
(* value it received from get, or the value it passed to set, never        *)
(* changes the payload that a later get of the key returns.                *)
(***************************************************************************)
C24_StoreOwnsPayload ==
    [][\A t \in Threads, o \in Objects :
          (pc[t] = "idle" /\ heap[o].held /\ heap'[o] # heap[o]) =>
              \A e \in EntriesOf(cache) : heap'[e.data].content = heap[e.data].content]_vars

(***************************************************************************)
(* C25: Tie-breaking in eviction.  When a set of a new key finds the store *)
(* full and several entries share the smallest last_accessed (the creation *)
(* time for an entry never hit), the entry it removes is the one among     *)
(* them with the smallest created_at.                                      *)
(***************************************************************************)
C25_TieBreak ==
    [][\A t \in Threads :
          (/\ BodyStep(t, "set")
           /\ Len(cache) >= max_size
           /\ ~Has(cache, call'[t].key)) =>
              \A v \in old'[t] : \A e \in EntriesOf(cache) :
                  LruRank(e) = LruRank(v) => v.timestamp <= e.timestamp]_vars

C27_TimestampsFollowLockOrder ==
    [][\A t \in Threads :
          BodyStep(t, "set") =>
              \A e \in EntriesOf(cache) :
                  /\ call[t].cur >= e.timestamp
                  /\ call[t].cur >= LruRank(e)]_vars

====
